---- MODULE Spec2Model ----
(***************************************************************************)
(* Model of the connection health monitor of tchannel-go (health.go):      *)
(* HealthCheckOptions.enabled / withDefaults, the Connection.healthCheck   *)
(* goroutine and Connection.stophealthCheck.                               *)
(*                                                                         *)
(* The healthCheck goroutine is cut at its blocking points and at its      *)
(* calls into the connection (select, ping, connectionError, close), so    *)
(* that stophealthCheck callers interleave with it the way goroutines do.  *)
(***************************************************************************)
EXTENDS Integers, Sequences, FiniteSets, TLC

\* ------------------------------------------------------------------ bounds
\* Probes one run of the loop may issue before the model stops ticking.
MaxProbes == 6
\* Goroutines that may call stophealthCheck concurrently.
NumCallers == 2
\* Calls of stophealthCheck started over one run, all callers together.
MaxStopCalls == 3
\* Largest FailuresToClose the loop is run with.
MaxFailuresToClose == 3
\* Largest small Interval / Timeout / FailuresToClose given to the option
\* functions (next to 0, a negative value and the defaults).
MaxOptionValue == 2

\* --------------------------------------------------------------- constants
\* time.Second: a time.Duration is an int64 count of nanoseconds.
_defaultHealthCheckTimeout == 1000000000
_defaultHealthCheckFailuresToClose == 5

\* Results of c.ping(ctx).
ErrNil == "nil"
ErrInvalidConnectionState == "ErrInvalidConnectionState"
ErrTimeout == "ErrTimeout"
ErrOther == "ErrOther"
PingResults == {ErrNil, ErrTimeout, ErrOther, ErrInvalidConnectionState}

NoResult == "none"
Callers == 1..NumCallers

VARIABLES
    \* HealthCheckOptions functions
    hco,                 \* a HealthCheckOptions value (the receiver)
    resolved,            \* <<what hco.withDefaults() returned>>, <<>> before the call
    isEnabled,           \* <<what hco.enabled() returned>>, <<>> before the call
    \* Connection
    opts,                \* c.opts.HealthChecks
    healthCheckStopped,  \* c.healthCheckStopped (atomic bool)
    healthCheckQuit,     \* c.healthCheckQuit: "open" or "closed"
    \* healthCheck goroutine
    pc,                  \* position of the healthCheck goroutine
    consecutiveFailures, \* its local consecutiveFailures
    err,                 \* its local err (result of the last ping)
    tickPending,         \* a tick is buffered in ticker.C (capacity 1)
    tickerStops,         \* times the deferred ticker.Stop() has run
    ctxCreated,          \* context.WithTimeout calls so far
    ctxCancelled,        \* cancel() calls so far (deferred ones, run at return)
    exitPath,            \* the return statement taken: "quit", "sentinel", "close"
    \* stophealthCheck callers
    spc,                 \* position of each caller
    stopCalls,           \* calls of stophealthCheck started
    \* effects on collaborators (observations)
    outcomes,            \* results of the pings that returned, in order
    errorReports,        \* for each connectionError call, the probe it reports
    closeCalls,          \* for each c.close call, the probe whose err it carries
    debugLogs,           \* c.log.Debug("Stopping health checks.") calls
    quitCloses,          \* close(c.healthCheckQuit) executions
    quitClosedAt         \* where the healthCheck goroutine was when
                         \* healthCheckQuit was closed, NoResult before

optVars == <<hco, resolved, isEnabled>>
connVars == <<opts, healthCheckStopped, healthCheckQuit>>
loopVars == <<pc, consecutiveFailures, err, tickPending, tickerStops,
              ctxCreated, ctxCancelled, exitPath>>
stopVars == <<spc, stopCalls>>
obsVars == <<outcomes, errorReports, closeCalls, debugLogs, quitCloses,
             quitClosedAt>>
vars == <<optVars, connVars, loopVars, stopVars, obsVars>>

\* ------------------------------------------------- HealthCheckOptions
Options(i, t, f) == [Interval |-> i, Timeout |-> t, FailuresToClose |-> f]

\* enabled with the comparison widened: >= for >.
enabledFromZero(o) == o.Interval >= 0

\* func (hco HealthCheckOptions) enabled() bool
enabled(o) == o.Interval > 0

\* withDefaults with the Timeout test lost: the default replaces any Timeout.
withDefaultsOverwritingTimeout(o) ==
    LET o1 == [o EXCEPT !.Timeout = _defaultHealthCheckTimeout]
    IN  IF o1.FailuresToClose = 0
        THEN [o1 EXCEPT !.FailuresToClose = _defaultHealthCheckFailuresToClose]
        ELSE o1

\* func (hco HealthCheckOptions) withDefaults() HealthCheckOptions
withDefaults(o) ==
    LET o1 == IF o.Timeout = 0
              THEN [o EXCEPT !.Timeout = _defaultHealthCheckTimeout]
              ELSE o
    IN  IF o1.FailuresToClose = 0
        THEN [o1 EXCEPT !.FailuresToClose = _defaultHealthCheckFailuresToClose]
        ELSE o1

\* Values the option functions are applied to.
DurationValues == (-1..MaxOptionValue) \cup {_defaultHealthCheckTimeout}
FailuresValues == (-1..MaxOptionValue) \cup {_defaultHealthCheckFailuresToClose}
OptionValues ==
    {Options(i, t, f) : i \in DurationValues, t \in DurationValues, f \in FailuresValues}

\* Options the healthCheck goroutine is run with: NewTicker needs Interval > 0.
LoopOptions ==
    {Options(1, _defaultHealthCheckTimeout, f) : f \in -1..MaxFailuresToClose}

\* ------------------------------------------------- initial states
InitConn ==
    /\ healthCheckStopped = FALSE
    /\ healthCheckQuit = "open"
    /\ pc = "select"
    /\ consecutiveFailures = 0
    /\ err = ErrNil
    /\ tickPending = FALSE
    /\ tickerStops = 0
    /\ ctxCreated = 0
    /\ ctxCancelled = 0
    /\ exitPath = NoResult
    /\ spc = [c \in Callers |-> "idle"]
    /\ stopCalls = 0
    /\ outcomes = <<>>
    /\ errorReports = <<>>
    /\ closeCalls = <<>>
    /\ debugLogs = 0
    /\ quitCloses = 0
    /\ quitClosedAt = NoResult

Init ==
    /\ hco = Options(1, 0, 0)
    /\ resolved = <<>>
    /\ isEnabled = <<>>
    /\ opts \in LoopOptions
    /\ InitConn

InitOpts ==
    /\ hco \in OptionValues
    /\ resolved = <<>>
    /\ isEnabled = <<>>
    /\ opts = Options(1, _defaultHealthCheckTimeout, _defaultHealthCheckFailuresToClose)
    /\ InitConn

\* ------------------------------------------------- option functions applied
WithDefaults ==
    /\ resolved = <<>>
    /\ resolved' = <<withDefaults(hco)>>
    /\ UNCHANGED <<hco, isEnabled, connVars, loopVars, stopVars, obsVars>>

Enabled ==
    /\ isEnabled = <<>>
    /\ isEnabled' = <<enabled(hco)>>
    /\ UNCHANGED <<hco, resolved, connVars, loopVars, stopVars, obsVars>>

\* ------------------------------------------------- healthCheck goroutine
\* The sentinel test lost: every error is handled as a health check failure.
NeverSentinel(e) == FALSE

\* err == ErrInvalidConnectionState
IsSentinel(e) == e = ErrInvalidConnectionState

\* The reset on success lost.
KeepFailures(n) == n

\* consecutiveFailures = 0
ResetFailures(n) == 0

\* The increment lost.
LostIncrement(n) == n

\* The increment made twice.
DoubleIncrement(n) == n + 2

\* consecutiveFailures++
IncrementFailures(n) == n + 1

\* The comparison off by one: > for >=.
ThresholdExceeded(n, failuresToClose) == n > failuresToClose

\* consecutiveFailures >= opts.FailuresToClose
ThresholdReached(n, failuresToClose) == n >= failuresToClose

\* A return without the deferred ticker.Stop().
ReturnLeavingTicker(path) ==
    /\ pc' = "done"
    /\ exitPath' = path
    /\ ctxCancelled' = ctxCreated
    /\ tickerStops' = tickerStops

\* A continue for the return: the deferred calls run but the loop goes on.
ReturnThenContinue(path) ==
    /\ pc' = "select"
    /\ exitPath' = path
    /\ ctxCancelled' = ctxCreated
    /\ tickerStops' = tickerStops + 1

\* Only the cancel of the last iteration deferred (one deferred call kept).
ReturnCancellingLast(path) ==
    /\ pc' = "done"
    /\ exitPath' = path
    /\ ctxCancelled' = IF ctxCreated > 0 THEN 1 ELSE 0
    /\ tickerStops' = tickerStops + 1

\* ticker.Stop() called at the return and deferred as well.
ReturnStoppingTwice(path) ==
    /\ pc' = "done"
    /\ exitPath' = path
    /\ ctxCancelled' = ctxCreated
    /\ tickerStops' = tickerStops + 2

\* A return statement of healthCheck: the deferred calls run, last deferred
\* first: every cancel() deferred by an iteration, then ticker.Stop().
Return(path) ==
    /\ pc' = "done"
    /\ exitPath' = path
    /\ ctxCancelled' = ctxCreated
    /\ tickerStops' = tickerStops + 1

\* The runtime ticker sends on ticker.C (buffer of one; a tick is dropped when
\* one is already buffered) until ticker.Stop().
Tick ==
    /\ tickerStops = 0
    /\ ~tickPending
    /\ ctxCreated < MaxProbes
    /\ tickPending' = TRUE
    /\ UNCHANGED <<optVars, connVars, pc, consecutiveFailures, err, tickerStops,
                   ctxCreated, ctxCancelled, exitPath, stopVars, obsVars>>

\* The tick case taken without receiving the tick, which stays buffered.
SelectTickKeepingTick ==
    /\ pc = "select"
    /\ tickPending
    /\ ctxCreated < MaxProbes
    /\ ctxCreated' = ctxCreated + 1
    /\ pc' = "ping"
    /\ UNCHANGED <<optVars, connVars, consecutiveFailures, err, tickPending,
                   tickerStops, ctxCancelled, exitPath, stopVars, obsVars>>

\* select, case <-ticker.C: then ctx, cancel := context.WithTimeout(...);
\* defer cancel(); and c.ping(ctx) is called.
SelectTick ==
    /\ pc = "select"
    /\ tickPending
    /\ tickPending' = FALSE
    /\ ctxCreated' = ctxCreated + 1
    /\ pc' = "ping"
    /\ UNCHANGED <<optVars, connVars, consecutiveFailures, err, tickerStops,
                   ctxCancelled, exitPath, stopVars, obsVars>>

\* The quit case leaving only the select (a break for the return): the loop
\* goes on to the probe.
SelectQuitFallsThrough ==
    /\ pc = "select"
    /\ healthCheckQuit = "closed"
    /\ ctxCreated < MaxProbes
    /\ ctxCreated' = ctxCreated + 1
    /\ pc' = "ping"
    /\ UNCHANGED <<optVars, connVars, consecutiveFailures, err, tickPending,
                   tickerStops, ctxCancelled, exitPath, stopVars, obsVars>>

\* select, case <-c.healthCheckQuit: return. A closed channel is always ready;
\* when a tick is buffered too, select picks either case.
SelectQuit ==
    /\ pc = "select"
    /\ healthCheckQuit = "closed"
    /\ Return("quit")
    /\ UNCHANGED <<optVars, connVars, consecutiveFailures, err, tickPending,
                   ctxCreated, stopVars, obsVars>>

\* c.ping(ctx) returns e (a timeout of ctx is one of the errors).
PingReturn(e) ==
    /\ pc = "ping"
    /\ err' = e
    /\ outcomes' = Append(outcomes, e)
    /\ IF e = ErrNil
       THEN /\ consecutiveFailures' = ResetFailures(consecutiveFailures)
            /\ pc' = "select"
            /\ UNCHANGED <<ctxCancelled, tickerStops, exitPath>>
       ELSE IF IsSentinel(e)
       THEN /\ Return("sentinel")
            /\ UNCHANGED consecutiveFailures
       ELSE /\ pc' = "report"
            /\ UNCHANGED <<consecutiveFailures, ctxCancelled, tickerStops, exitPath>>
    /\ UNCHANGED <<optVars, connVars, tickPending, ctxCreated, stopVars,
                   errorReports, closeCalls, debugLogs, quitCloses,
                   quitClosedAt>>

\* The connectionError call lost: the failure is counted without a report.
ReportErrorDropped ==
    /\ pc = "report"
    /\ pc' = "count"
    /\ UNCHANGED <<optVars, connVars, consecutiveFailures, err, tickPending,
                   tickerStops, ctxCreated, ctxCancelled, exitPath, stopVars,
                   obsVars>>

\* c.connectionError("healthCheck", ...)
ReportError ==
    /\ pc = "report"
    /\ errorReports' = Append(errorReports, [probe |-> Len(outcomes), err |-> err])
    /\ pc' = "count"
    /\ UNCHANGED <<optVars, connVars, consecutiveFailures, err, tickPending,
                   tickerStops, ctxCreated, ctxCancelled, exitPath, stopVars,
                   outcomes, closeCalls, debugLogs, quitCloses, quitClosedAt>>

\* consecutiveFailures++ and the comparison with opts.FailuresToClose
CountFailure ==
    /\ pc = "count"
    /\ consecutiveFailures' = IncrementFailures(consecutiveFailures)
    /\ pc' = IF ThresholdReached(consecutiveFailures', opts.FailuresToClose)
             THEN "close"
             ELSE "select"
    /\ UNCHANGED <<optVars, connVars, err, tickPending, tickerStops, ctxCreated,
                   ctxCancelled, exitPath, stopVars, obsVars>>

\* c.close(LogFields{{"reason", "health check failure"}, ErrField(err)}...); return
Close ==
    /\ pc = "close"
    /\ closeCalls' = Append(closeCalls, [probe |-> Len(outcomes), err |-> err])
    /\ Return("close")
    /\ UNCHANGED <<optVars, connVars, consecutiveFailures, err, tickPending,
                   ctxCreated, stopVars, outcomes, errorReports, debugLogs,
                   quitCloses, quitClosedAt>>

\* ------------------------------------------------- stophealthCheck
\* A Swap that returns a stale value: a Load and a Store that another caller
\* gets between.
StaleSwap(flag, new) == [old |-> FALSE, value |-> new]

\* A Load for the Swap: the old value returned, nothing stored.
SwapWithoutStore(flag, new) == [old |-> flag, value |-> flag]

\* atomic.Bool.Swap(new): stores new and returns the old value, in one step.
Swap(flag, new) == [old |-> flag, value |-> new]

\* if c.healthCheckStopped.Swap(true) { return }
StopSwap(c) ==
    /\ spc[c] = "idle"
    /\ stopCalls < MaxStopCalls
    /\ stopCalls' = stopCalls + 1
    /\ LET s == Swap(healthCheckStopped, TRUE)
       IN  /\ healthCheckStopped' = s.value
           /\ spc' = [spc EXCEPT ![c] = IF s.old THEN "idle" ELSE "log"]
    /\ UNCHANGED <<optVars, opts, healthCheckQuit, loopVars, obsVars>>

\* c.log.Debug("Stopping health checks.")
StopLog(c) ==
    /\ spc[c] = "log"
    /\ debugLogs' = debugLogs + 1
    /\ spc' = [spc EXCEPT ![c] = "close"]
    /\ UNCHANGED <<optVars, connVars, loopVars, stopCalls, outcomes, errorReports,
                   closeCalls, quitCloses, quitClosedAt>>

\* close(c.healthCheckQuit): closing a closed channel panics.
StopClose(c) ==
    /\ spc[c] = "close"
    /\ quitCloses' = quitCloses + 1
    /\ healthCheckQuit' = "closed"
    /\ spc' = [spc EXCEPT ![c] = IF healthCheckQuit = "closed" THEN "panic" ELSE "idle"]
    /\ quitClosedAt' = IF quitClosedAt = NoResult THEN pc ELSE quitClosedAt
    /\ UNCHANGED <<optVars, opts, healthCheckStopped, loopVars, stopCalls, outcomes,
                   errorReports, closeCalls, debugLogs>>

\* ------------------------------------------------- specifications
Next ==
    \/ Tick
    \/ SelectTick
    \/ SelectQuit
    \/ \E e \in PingResults : PingReturn(e)
    \/ ReportError
    \/ CountFailure
    \/ Close
    \/ \E c \in Callers : StopSwap(c)
    \/ \E c \in Callers : StopLog(c)
    \/ \E c \in Callers : StopClose(c)

Spec == Init /\ [][Next]_vars

NextOpts == WithDefaults \/ Enabled

SpecOpts == InitOpts /\ [][NextOpts]_vars

\* The healthCheck goroutine alone, never stopped, with a connection whose
\* probes fail from some point on while the ticker keeps firing: c.ping never
\* returns ErrInvalidConnectionState, and it returns nil only while the ticks
\* still to come allow FailuresToClose further probes.
ProbesToClose == IF opts.FailuresToClose < 1 THEN 1 ELSE opts.FailuresToClose

PingReturnWhileTicksLast(e) ==
    /\ e # ErrInvalidConnectionState
    /\ (e = ErrNil) => (Len(outcomes) + 1 + ProbesToClose <= MaxProbes)
    /\ PingReturn(e)

NextFailing ==
    \/ Tick
    \/ SelectTick
    \/ \E e \in PingResults : PingReturnWhileTicksLast(e)
    \/ ReportError
    \/ CountFailure
    \/ Close

\* The ticker fires, every probe returns, and the goroutine keeps running.
SpecFailing ==
    /\ Init
    /\ [][NextFailing]_vars
    /\ WF_vars(Tick)
    /\ WF_vars(SelectTick)
    /\ WF_vars(\E e \in PingResults : PingReturnWhileTicksLast(e))
    /\ WF_vars(ReportError)
    /\ WF_vars(CountFailure)
    /\ WF_vars(Close)

\* The goroutines keep running: a stophealthCheck call that won the Swap goes
\* on to its log and close, every probe returns, the healthCheck goroutine
\* takes its next step, and a select that finds healthCheckQuit closed again
\* and again takes the quit case in the end (select picks among the ready
\* cases at random). One error stands for every non-sentinel error of c.ping,
\* which healthCheck does not tell apart.
StopPingResults == {ErrNil, ErrOther, ErrInvalidConnectionState}

NextStop ==
    \/ Tick
    \/ SelectTick
    \/ SelectQuit
    \/ \E e \in StopPingResults : PingReturn(e)
    \/ ReportError
    \/ CountFailure
    \/ Close
    \/ \E c \in Callers : StopSwap(c)
    \/ \E c \in Callers : StopLog(c)
    \/ \E c \in Callers : StopClose(c)

SpecStopFair ==
    /\ Init
    /\ [][NextStop]_vars
    /\ \A c \in Callers : WF_vars(StopLog(c)) /\ WF_vars(StopClose(c))
    /\ WF_vars(\E e \in StopPingResults : PingReturn(e))
    /\ WF_vars(ReportError)
    /\ WF_vars(CountFailure)
    /\ WF_vars(Close)
    /\ SF_vars(SelectQuit)

\* ------------------------------------------------- properties
IsFailure(e) == e # ErrNil /\ ~(e = ErrInvalidConnectionState)

Front(s) == SubSeq(s, 1, Len(s) - 1)

Last(s) == s[Len(s)]

\* Length of the trailing run of failed (non-sentinel) probes of s since its
\* last successful probe; a sentinel result neither counts nor ends the run.
RECURSIVE TrailingFailures(_)
TrailingFailures(s) ==
    IF s = <<>> THEN 0
    ELSE IF Last(s) = ErrNil THEN 0
    ELSE IF Last(s) = ErrInvalidConnectionState THEN TrailingFailures(Front(s))
    ELSE 1 + TrailingFailures(Front(s))

\* The probes of s that failed with a non-sentinel error.
FailedProbes(s) == {i \in 1..Len(s) : IsFailure(s[i])}

\* The healthCheck goroutine is done with the last probe of outcomes.
ProbeProcessed == pc \in {"select", "ping", "done"}

AllIdle == \A c \in Callers : spc[c] = "idle"

\* C1: healthCheck calls c.close if and only if a failed, non-sentinel probe has
\* brought the count of consecutive failures to opts.FailuresToClose or above:
\* a close call is made by the probe that ends a streak of at least
\* FailuresToClose failures, every processed probe that ends such a streak has
\* been followed by the close call, and one run calls close at most once.
C1_CloseIffThresholdReached ==
    /\ Len(closeCalls) <= 1
    /\ Len(closeCalls) = 1 =>
          /\ outcomes # <<>>
          /\ IsFailure(Last(outcomes))
          /\ closeCalls[1].probe = Len(outcomes)
          /\ TrailingFailures(outcomes) >= opts.FailuresToClose
    /\ ( /\ ProbeProcessed
         /\ outcomes # <<>>
         /\ IsFailure(Last(outcomes))
         /\ TrailingFailures(outcomes) >= opts.FailuresToClose )
       => Len(closeCalls) = 1

\* FailuresToClose = 3 and fail, fail, success, fail, fail, fail: closed once,
\* by the 6th probe.
C1_Witness ==
    /\ opts.FailuresToClose = 3
    /\ outcomes = <<ErrOther, ErrTimeout, ErrNil, ErrTimeout, ErrOther, ErrTimeout>>
    /\ Len(closeCalls) = 1
    /\ closeCalls[1].probe = 6
    /\ pc = "done"

\* C2: however many stophealthCheck calls are made and however they interleave,
\* healthCheckQuit is closed at most once (no close of a closed channel), it
\* has been closed exactly once when the calls made have all returned, and only
\* the one call that won the Swap ever gets past it: no other call logs or
\* closes.
C2_QuitClosedOnce ==
    /\ quitCloses <= 1
    /\ debugLogs <= 1
    /\ \A c \in Callers : spc[c] # "panic"
    /\ Cardinality({c \in Callers : spc[c] # "idle"}) <= 1
    /\ (quitCloses = 1) <=> (healthCheckQuit = "closed")
    /\ (stopCalls >= 1 /\ AllIdle) => (quitCloses = 1 /\ debugLogs = 1)
    /\ (stopCalls = 0) => (quitCloses = 0 /\ debugLogs = 0)

\* Three calls made, all returned, one close.
C2_Witness ==
    /\ stopCalls >= 3
    /\ AllIdle
    /\ quitCloses = 1
    /\ healthCheckQuit = "closed"

\* C3: once a probe is processed, consecutiveFailures is the length of the
\* trailing run of failed (non-sentinel) probes since the last success or the
\* start: 0 right after a success, one more after each failed probe. While a
\* failed probe is being reported and counted it is still one short.
C3_FailuresAreTrailingRun ==
    /\ consecutiveFailures >= 0
    /\ (pc \in {"select", "ping", "close", "done"}) =>
          consecutiveFailures = TrailingFailures(outcomes)
    /\ (pc \in {"report", "count"}) =>
          consecutiveFailures + 1 = TrailingFailures(outcomes)
    /\ (ProbeProcessed /\ outcomes # <<>> /\ Last(outcomes) = ErrNil) =>
          consecutiveFailures = 0

\* fail, fail, success, fail: the counter went 1, 2, 0, 1.
C3_Witness ==
    /\ outcomes = <<ErrTimeout, ErrOther, ErrNil, ErrOther>>
    /\ pc = "select"
    /\ consecutiveFailures = 1

\* C4 (as claimed): once a stophealthCheck call has closed healthCheckQuit while
\* the loop was waiting for the tick or had a probe outstanding, the loop
\* terminates at most once and never calls c.close from then on (stated for
\* the thresholds a resolved configuration has, FailuresToClose >= 1).
C4_NoCloseAfterStop ==
    [][(quitClosedAt \in {"select", "ping"} /\ opts.FailuresToClose >= 1) =>
          (closeCalls' = closeCalls /\ tickerStops' <= 1)]_vars

\* C5 (as claimed): whenever the loop is at its wait point, every context
\* created for a probe has been cancelled.
C5_NoUnreleasedContextAtWait ==
    pc = "select" => ctxCreated - ctxCancelled = 0

\* C6: a probe that returns ErrInvalidConnectionState ends the loop in that
\* iteration: the loop is done by its sentinel return, that probe is the last
\* one issued, it is not reported through connectionError, it leaves
\* consecutiveFailures as the earlier probes left it, and no close call is made.
C6_SentinelEndsLoopQuietly ==
    (outcomes # <<>> /\ Last(outcomes) = ErrInvalidConnectionState) =>
        /\ pc = "done"
        /\ exitPath = "sentinel"
        /\ ctxCreated = Len(outcomes)
        /\ closeCalls = <<>>
        /\ \A i \in 1..Len(errorReports) : errorReports[i].probe # Len(outcomes)
        /\ Len(errorReports) = Cardinality(FailedProbes(outcomes))
        /\ consecutiveFailures = TrailingFailures(Front(outcomes))
        /\ (Len(outcomes) = 1 => (errorReports = <<>> /\ consecutiveFailures = 0))

\* A failure, then the sentinel: one report, the counter still 1, no close.
C6_Witness ==
    /\ outcomes = <<ErrTimeout, ErrInvalidConnectionState>>
    /\ pc = "done"
    /\ consecutiveFailures = 1
    /\ Len(errorReports) = 1
    /\ opts.FailuresToClose >= 2

\* C7 (as claimed): after the loop has ended itself (threshold close or
\* sentinel), with no stophealthCheck call in progress, nothing changes the
\* stopped flag, the quit channel or the debug log any more.
C7_StopAfterSelfTerminationIsNoOp ==
    [][(pc = "done" /\ exitPath \in {"close", "sentinel"} /\ AllIdle) =>
          UNCHANGED <<healthCheckStopped, healthCheckQuit, debugLogs>>]_vars

\* C8 (as claimed): when a stophealthCheck call completed while a probe was
\* outstanding, the loop starts no probe from its wait point any more.
C8_NoProbeAfterStopDuringProbe ==
    [][(quitClosedAt = "ping" /\ pc = "select") => pc' # "ping"]_vars

\* C9: when the loop leaves its wait point with healthCheckQuit closed and no
\* tick buffered, it returns by the quit case in that step: the ticker is
\* stopped, and no probe, no close call and no error report is made and
\* consecutiveFailures is left as it was.
C9_StopAtWaitPoint ==
    [][(pc = "select" /\ healthCheckQuit = "closed" /\ ~tickPending /\ pc' # pc) =>
          /\ pc' = "done"
          /\ exitPath' = "quit"
          /\ tickerStops' = 1
          /\ UNCHANGED <<ctxCreated, outcomes, errorReports, closeCalls,
                         consecutiveFailures>>]_vars

\* The loop was stopped at its wait point, after a failed probe, no tick buffered.
C9_Witness ==
    /\ pc = "done"
    /\ exitPath = "quit"
    /\ ~tickPending
    /\ tickerStops = 1
    /\ consecutiveFailures = 1
    /\ closeCalls = <<>>

\* C10: withDefaults returns Timeout = 1 second where the receiver's is 0 and
\* the receiver's otherwise, FailuresToClose = 5 where the receiver's is 0 and
\* the receiver's otherwise, and the receiver's Interval, 0 included.
C10_WithDefaults ==
    resolved # <<>> =>
        LET r == resolved[1]
        IN  /\ r.Timeout = (IF hco.Timeout = 0 THEN 1000000000 ELSE hco.Timeout)
            /\ r.FailuresToClose =
                  (IF hco.FailuresToClose = 0 THEN 5 ELSE hco.FailuresToClose)
            /\ r.Interval = hco.Interval
            /\ DOMAIN r = {"Interval", "Timeout", "FailuresToClose"}

\* The zero value resolved: the two defaults set, Interval still 0.
C10_Witness ==
    /\ hco = Options(0, 0, 0)
    /\ resolved = <<Options(0, 1000000000, 5)>>

\* C11: enabled() is true exactly when Interval > 0, whatever Timeout and
\* FailuresToClose are: false for Interval = 0 (and below), true above.
C11_EnabledIffPositiveInterval ==
    isEnabled # <<>> =>
        /\ isEnabled[1] \in BOOLEAN
        /\ (hco.Interval = 0 => isEnabled[1] = FALSE)
        /\ (hco.Interval > 0 => isEnabled[1] = TRUE)
        /\ (hco.Interval < 0 => isEnabled[1] = FALSE)

\* Interval 0 with the other fields set: not enabled.
C11_Witness ==
    /\ hco = Options(0, 2, 2)
    /\ isEnabled = <<FALSE>>

\* The connectionError calls made so far are, in order, one for each failed
\* (non-sentinel) probe among the first n probes, each with that probe's error.
ReportsCover(n) ==
    /\ Len(errorReports) = Cardinality({i \in FailedProbes(outcomes) : i <= n})
    /\ \A k \in 1..Len(errorReports) :
          /\ errorReports[k].probe \in FailedProbes(outcomes)
          /\ errorReports[k].err = outcomes[errorReports[k].probe]
          /\ \A j \in 1..Len(errorReports) :
                j < k => errorReports[j].probe < errorReports[k].probe

\* C12: every probe that fails with a non-sentinel error is reported through
\* connectionError exactly once, before it is counted and before any close;
\* the close call carries the error of the last failed probe, which is also
\* reported, and no probe follows it; a failure that leaves the streak below
\* FailuresToClose causes no close, and a probe is only ever started from the
\* wait point by consuming a tick.
C12_ReportThenCountThenClose ==
    /\ [](/\ (pc = "report") => ReportsCover(Len(outcomes) - 1)
          /\ (pc # "report") => ReportsCover(Len(outcomes))
          /\ (pc = "count") =>
                /\ errorReports[Len(errorReports)].probe = Len(outcomes)
                /\ consecutiveFailures + 1 = TrailingFailures(outcomes)
                /\ closeCalls = <<>>
          /\ (pc \in {"report", "count", "close"}) => closeCalls = <<>>
          /\ (closeCalls # <<>>) =>
                /\ pc = "done"
                /\ closeCalls[1].probe = Len(outcomes)
                /\ closeCalls[1].err = Last(outcomes)
                /\ IsFailure(closeCalls[1].err)
                /\ ctxCreated = Len(outcomes)
                /\ errorReports[Len(errorReports)].probe = Len(outcomes)
          /\ ( /\ ProbeProcessed
               /\ outcomes # <<>>
               /\ IsFailure(Last(outcomes))
               /\ TrailingFailures(outcomes) < opts.FailuresToClose )
             => closeCalls = <<>>)
    /\ [][(ctxCreated' # ctxCreated) =>
             (pc = "select" /\ tickPending /\ ~tickPending')]_vars

\* Two failures below the threshold, reported and retried on later ticks, then
\* the third closes with its own error.
C12_Witness ==
    /\ opts.FailuresToClose = 3
    /\ outcomes = <<ErrOther, ErrOther, ErrTimeout>>
    /\ Len(errorReports) = 3
    /\ closeCalls = <<[probe |-> 3, err |-> ErrTimeout]>>
    /\ pc = "done"

\* C13: never stopped, with ticks that keep coming and probes that all return
\* and, from some point on, all fail with a non-sentinel error, healthCheck
\* eventually calls c.close and returns; when every probe from the first one
\* fails and FailuresToClose = k >= 1, the close comes with the k-th probe.
C13_FailingProbesLeadToClose ==
    /\ <>(pc = "done" /\ exitPath = "close" /\ Len(closeCalls) = 1)
    /\ []( ( /\ closeCalls # <<>>
             /\ opts.FailuresToClose >= 1
             /\ \A i \in 1..Len(outcomes) : IsFailure(outcomes[i]) )
           => (Len(outcomes) = opts.FailuresToClose
               /\ closeCalls[1].probe = opts.FailuresToClose) )

\* Failures, a success, then three failures in a row: closed by the last one.
C13_Witness ==
    /\ opts.FailuresToClose = 3
    /\ outcomes = <<ErrOther, ErrOther, ErrNil, ErrOther, ErrTimeout, ErrOther>>
    /\ pc = "done"
    /\ exitPath = "close"
    /\ stopCalls = 0

\* C14: once stophealthCheck has been called, the healthCheck goroutine
\* eventually returns, given that the stop call runs on, every probe returns
\* and the select is fair to its quit case.
C14_StopLeadsToExit ==
    (stopCalls >= 1) ~> (pc = "done")

\* Stopped with a tick buffered at the wait point, after a probe, and exited
\* by the quit case.
C14_Witness ==
    /\ pc = "done"
    /\ exitPath = "quit"
    /\ tickPending
    /\ quitClosedAt = "ping"
    /\ Len(outcomes) >= 1

\* C15: the loop has returned exactly when the deferred ticker.Stop() has run,
\* by whichever return (quit case, sentinel, close), and it has run once.
C15_TickerStoppedOnExit ==
    /\ tickerStops <= 1
    /\ (pc = "done") <=> (tickerStops = 1)
    /\ (pc = "done") <=> (exitPath \in {"quit", "sentinel", "close"})
    /\ (pc # "done") => (exitPath = NoResult)

\* Returned after the close call, the ticker stopped once.
C15_Witness ==
    /\ pc = "done"
    /\ exitPath = "close"
    /\ tickerStops = 1
    /\ Len(outcomes) >= 2

\* C16: once healthCheck has returned, by any return, it stays returned and
\* makes no probe, no connectionError call and no close call any more, whatever
\* ticks are buffered and whatever stophealthCheck calls follow.
C16_StoppedIsTerminal ==
    [][(exitPath # NoResult) =>
          /\ pc = "done"
          /\ UNCHANGED <<pc, exitPath, ctxCreated, ctxCancelled, outcomes,
                         errorReports, closeCalls, consecutiveFailures, err,
                         tickerStops, tickPending>>]_vars

\* Returned by the close path with a tick still buffered, and stopped after that.
C16_Witness ==
    /\ pc = "done"
    /\ exitPath = "close"
    /\ tickPending
    /\ quitClosedAt = "done"
    /\ healthCheckQuit = "closed"

\* C17: at most one probe is outstanding, and exactly while the goroutine is in
\* c.ping; a probe is started only from the wait point, with every earlier
\* probe returned, one at a time, by consuming a tick.
C17_ProbesSequential ==
    /\ [](/\ ctxCreated - Len(outcomes) \in {0, 1}
          /\ (ctxCreated - Len(outcomes) = 1) <=> (pc = "ping"))
    /\ [][(ctxCreated' # ctxCreated) =>
             /\ pc = "select"
             /\ ctxCreated = Len(outcomes)
             /\ ctxCreated' = ctxCreated + 1
             /\ tickPending
             /\ ~tickPending']_vars

\* The third probe outstanding, the two before it returned.
C17_Witness ==
    /\ pc = "ping"
    /\ ctxCreated = 3
    /\ Len(outcomes) = 2
    /\ tickPending

\* C18: with FailuresToClose >= 1, consecutiveFailures stays within
\* 0..FailuresToClose, and is below FailuresToClose whenever the loop is at
\* its wait point.
C18_FailuresWithinThreshold ==
    (opts.FailuresToClose >= 1) =>
        /\ consecutiveFailures >= 0
        /\ consecutiveFailures <= opts.FailuresToClose
        /\ (pc = "select") => (consecutiveFailures < opts.FailuresToClose)

\* The counter at the threshold, about to close; below it at the wait point
\* is every earlier state of the run.
C18_Witness ==
    /\ opts.FailuresToClose = 3
    /\ consecutiveFailures = 3
    /\ pc = "close"
    /\ Len(outcomes) = 5

\* C19: when healthCheck has returned, by any return, every context created
\* for a probe has been cancelled, once each: as many cancel calls as
\* contexts; before the return no context is cancelled more than once either.
C19_ContextsCancelledOnExit ==
    /\ ctxCancelled <= ctxCreated
    /\ (pc = "done") => (ctxCancelled = ctxCreated)
    /\ (exitPath # NoResult) => (ctxCancelled = ctxCreated)

\* Three probes made, then stopped at the wait point: three cancels.
C19_Witness ==
    /\ pc = "done"
    /\ exitPath = "quit"
    /\ ctxCreated = 3
    /\ ctxCancelled = 3

\* C20: healthCheckQuit closed implies healthCheckStopped set; the flag never
\* goes back to false and the channel never reopens; and the flag and the
\* channel change only in a step of a stophealthCheck caller, which leaves the
\* healthCheck goroutine's state alone.
C20_QuitImpliesStopped ==
    /\ []((healthCheckQuit = "closed") => healthCheckStopped)
    /\ [][healthCheckStopped => healthCheckStopped']_vars
    /\ [][(healthCheckQuit = "closed") => (healthCheckQuit' = "closed")]_vars
    /\ [][(healthCheckStopped' # healthCheckStopped \/ healthCheckQuit' # healthCheckQuit)
            => (/\ (spc' # spc \/ stopCalls' # stopCalls)
                /\ UNCHANGED loopVars)]_vars

\* The channel closed and the flag set while a probe is outstanding.
C20_Witness ==
    /\ healthCheckQuit = "closed"
    /\ healthCheckStopped
    /\ pc = "ping"

====
